---- MODULE Spec2Model ----
(***************************************************************************)
(* A model of src/src/database/database.py: the coordinate resolution      *)
(* engine of DatabaseInstance (closure, iterative join, filter, collapse), *)
(* the registry (declare, join, initialize), the memo of the resolution    *)
(* over several calls on one Instance, the action dispatcher run_action    *)
(* with get_single_location and precompute, and the caching wrapper        *)
(* cache / safe_save.                                                      *)
(*                                                                         *)
(* A table (pandas DataFrame) is a record [cols, rows]: the set of column  *)
(* names and the sequence of rows, each row a function from cols to        *)
(* integers.  Duplicate rows are kept, as pandas keeps them.               *)
(***************************************************************************)
EXTENDS Integers, Sequences, FiniteSets, TLC

VARIABLES
    \* ---- coordinate resolution (DatabaseInstance.get_coords) ----
    reg,             \* which registry (Database) the Instance is built from
    names,           \* requested names, frozenset(names)
    selection_dict,  \* the filter: a sequence of items (dict order)
    pc,              \* position inside initialize / _get_coords_impl
    coords,          \* DatabaseInstance.coords: name -> index of its computer
    all_names,       \* the dependency closure (line 205)
    df,              \* the accumulating table of the join loop
    i,               \* position of the for loop over db.coord_computers
    calls,           \* history: every compute invocation <<computer, param_df>>
    progress,        \* whether the current scan of the for loop applied a computer
    cols_to_remove,  \* the nonlocal list filled by keep_unique_columns
    res,             \* the table returned by _get_coords_impl
    err,             \* the exception raised, "" when none
    \* ---- the Database objects (declare, join, initialize) ----
    dbs,             \* the Databases made: coord_computers and data of each
    built,           \* the Database initialize() was called on, 0 when none
    \* ---- the memo of _get_coords_impl and the tables handed to callers ----
    heap,            \* the DataFrame objects allocated, by identity
    memo,            \* functools.cache: key -> identity of the cached table
    handle,          \* the identity of the table the caller holds, 0 when none
    caller,          \* the method through which the key is resolved
    seen,            \* whether get_coords had returned for the key before
    mark,            \* how many compute invocations preceded the call
    first,           \* history: key -> the table first returned for it
    ncalls,          \* how many calls were made on the Instance
    \* ---- the caching wrapper (cache, safe_save) ----
    force_recompute, \* the decorator's parameter
    fkind,           \* what the wrapped function does (see InvokeF)
    files,           \* the directory: path -> inode, 0 when no file is there
    inode,           \* inode -> the chunks written, each tagged by its writer
    rpc,             \* run -> position inside new_f / new_saver
    fd,              \* run -> the inode its open file refers to, 0 when none
    pos,             \* run -> the offset of its open file, in chunks
    invoked,         \* run -> how many times it invoked the wrapped function
    ret,             \* run -> the path it returned, NoPath when none
    intact,          \* the runs that returned with no deletion of the target since
    after,           \* run -> the runs of intact when it was called
    \* ---- the action dispatcher (DatabaseInstance.run_action) ----
    continue_on_error, \* the Instance's flag
    action,          \* the action name of the call
    single,          \* the single parameter of the call
    fails,           \* the coordinate values on which the action callback raises
    locs,            \* the table of get_locations, then with the result column
    apc,             \* position inside run_action
    irow,            \* position of the loop over locs.iterrows()
    results,         \* the list results
    errors,          \* the list errors
    invocations,     \* history: the rows the action callback was invoked on
    raised,          \* the exception run_action raised
    out,             \* what run_action returned
    op,              \* the entry point: run_action, precompute, get_single_location
    resolves,        \* history: the table get_locations gives for the call
    finvoked         \* whether the function wrapped by precompute was invoked

mvars == <<heap, memo, handle, caller, seen, mark, first, ncalls>>

dvars == <<dbs, built>>

rvars == <<reg, names, selection_dict, pc, coords, all_names, df, i, calls,
           progress, cols_to_remove, res, err, mvars, dvars>>

cvars == <<force_recompute, fkind, files, inode, rpc, fd, pos, invoked, ret,
           intact, after>>

pvars == <<op, resolves, finvoked>>

avars == <<continue_on_error, action, single, fails, locs, apc, irow, results,
           errors, invocations, raised, out, pvars>>

vars == <<rvars, cvars, avars>>

(***************************************************************************)
(* Bounds of the model.                                                    *)
(***************************************************************************)
MaxA == 3            \* coordinate a ranges over 1..MaxA (the spec's scenario)
NegSpan == 1         \* the signed coordinate ranges over -NegSpan..MaxA
SliceSpan == 1       \* slice bounds range over -SliceSpan..SliceSpan
RecursionLimit == 6  \* depth at which _get_dependencies raises RecursionError
FileLen == 2         \* the chunks the saver writes for one artifact
MaxRows == 3         \* the rows get_coords resolves for the target of run_action
MaxLoc == 3          \* the locations a row can resolve to are 1..MaxLoc
MaxCalls == 3        \* the calls made on one Instance
MaxDeclared == 3     \* the computers declared, on all Databases together
MaxDbs == 3          \* the Databases made, two by Database(name), the others by join

(***************************************************************************)
(* Tables.                                                                 *)
(***************************************************************************)
EmptyRow == [c \in {} |-> 0]

Table(cs, rs) == [cols |-> cs, rows |-> rs]

\* pd.DataFrame([[]]): one row, no column
UnitTable == Table({}, <<EmptyRow>>)

Project(row, cs) == [c \in cs |-> row[c]]

RECURSIVE Concat(_)
Concat(ss) ==
    IF Len(ss) = 0 THEN <<>> ELSE Concat(SubSeq(ss, 1, Len(ss) - 1)) \o ss[Len(ss)]

Range(s) == {s[k] : k \in 1..Len(s)}

RECURSIVE KeepFirst(_)
KeepFirst(s) ==
    IF Len(s) = 0 THEN <<>>
    ELSE LET p == KeepFirst(SubSeq(s, 1, Len(s) - 1))
             l == s[Len(s)]
         IN  IF l \in Range(p) THEN p ELSE Append(p, l)

\* DataFrame.drop_duplicates: a frame with no column (or no row) is "empty" and
\* is returned as it is, with all its rows
drop_duplicates(t) ==
    IF t.cols = {} \/ Len(t.rows) = 0 THEN t ELSE Table(t.cols, KeepFirst(t.rows))

\* df[dep_list]
Columns(t, cs) == Table(cs, [k \in 1..Len(t.rows) |-> Project(t.rows[k], cs)])

(***************************************************************************)
(* The registries the Instance is built from: inputs of the program.  A    *)
(* computer is a CoordComputer made by from_function (row-wise,            *)
(* adapt_return): coords, dependencies and the user function fn.           *)
(***************************************************************************)
CC(co, de, f) == [coords |-> co, dependencies |-> de, fn |-> f]

\* The user function of a computer on the parameters d, as the list of rows it
\* returns (new_f turns it into a DataFrame over the computer's coords).
UserFn(fn, d) ==
    CASE fn = "range"   -> [k \in 1..MaxA |-> ("a" :> k)]
      [] fn = "signed"  -> [k \in 1..(NegSpan + MaxA + 1) |-> ("a" :> (k - NegSpan - 1))]
      [] fn = "times10" -> << ("b" :> (d["a"] * 10)) >>
      [] fn = "square"  -> << ("b" :> (d["a"] * d["a"])) >>
      [] fn = "succ"    -> << ("c" :> (d["b"] + 1)) >>
      [] fn = "fanout"  -> << ("b" :> d["a"]), ("b" :> (d["a"] + 1)) >>
      [] fn = "pair"    -> << (("b" :> (d["a"] * 10)) @@ ("c" :> (d["a"] % 2))) >>
      [] fn = "bits"    -> << ("d" :> 0), ("d" :> 1) >>
      [] fn = "half"    -> IF d["a"] % 2 = 0 THEN << ("b" :> (d["a"] \div 2)) >> ELSE <<>>
      [] fn = "sum"     -> << ("c" :> (d["a"] + d["b"])) >>
      [] fn = "parity"  -> << ("c" :> (d["a"] % 2)) >>
      [] OTHER          -> <<>>

Registries == 1..9

\* db.coord_computers, in declaration order
Computers(r) ==
    CASE r = 1 -> << CC({"a"}, {}, "range"), CC({"b"}, {"a"}, "times10") >>
      [] r = 2 -> << CC({"c"}, {"b"}, "succ"), CC({"b"}, {"a"}, "times10"),
                     CC({"a"}, {}, "range") >>
      [] r = 3 -> << CC({"a"}, {}, "signed"), CC({"b"}, {"a"}, "square"),
                     CC({"c"}, {"a"}, "parity") >>
      [] r = 4 -> << CC({"a"}, {}, "range"), CC({"b"}, {"a"}, "fanout"),
                     CC({"c"}, {"a", "b"}, "sum") >>
      [] r = 5 -> << CC({"a"}, {}, "range"), CC({"b", "c"}, {"a"}, "pair"),
                     CC({"d"}, {}, "bits") >>
      [] r = 6 -> << CC({"a"}, {}, "signed"), CC({"b"}, {"a"}, "half") >>
      [] r = 7 -> << CC({"b"}, {"a"}, "times10") >>
      [] r = 8 -> << CC({"a"}, {"b"}, "range"), CC({"b"}, {"a"}, "times10") >>
      [] OTHER -> << CC({"a"}, {}, "range"), CC({"b"}, {"a"}, "times10"),
                     CC({"b", "c"}, {"a"}, "pair") >>

Produced(r) == UNION {Computers(r)[k].coords : k \in 1..Len(Computers(r))}

(***************************************************************************)
(* Filters: selection_dict as the sequence of its items.  An item is one   *)
(* of the four kinds _filter tells apart.                                  *)
(***************************************************************************)
Item(c, k, v, vs, hs, s, he, e, p) ==
    [col |-> c, kind |-> k, val |-> v, vals |-> vs,
     hasStart |-> hs, start |-> s, hasStop |-> he, stop |-> e, pred |-> p]

Exact(c, v)        == Item(c, "exact", v, {}, FALSE, 0, FALSE, 0, "")
OneOf(c, vs)       == Item(c, "tuple", 0, vs, FALSE, 0, FALSE, 0, "")
Slice(c, hs, s, he, e) == Item(c, "slice", 0, {}, hs, s, he, e, "")
Pred(c, p)         == Item(c, "callable", 0, {}, FALSE, 0, FALSE, 0, p)

\* the user predicates
Holds(p, v) ==
    CASE p = "even"     -> v % 2 = 0
      [] p = "positive" -> v > 0
      [] OTHER          -> FALSE

SliceBounds == (-SliceSpan)..SliceSpan

\* slice(start, stop), either of them possibly None (start and stop are read
\* only under hasStart and hasStop)
Slices(c) ==
    {Slice(c, TRUE, s, TRUE, e) : s \in SliceBounds, e \in SliceBounds}
    \cup {Slice(c, TRUE, s, FALSE, 0) : s \in SliceBounds}
    \cup {Slice(c, FALSE, 0, TRUE, e) : e \in SliceBounds}
    \cup {Slice(c, FALSE, 0, FALSE, 0)}

Items(c) ==
    {Exact(c, v) : v \in {1, 5, 20}}
    \cup {OneOf(c, vs) : vs \in {{}, {1, 2}, {0, 10, 30}}}
    \cup Slices(c)
    \cup {Pred(c, p) : p \in {"even", "positive"}}

Selections ==
    {<<>>}
    \cup {<<it>> : it \in Items("a") \cup Items("b")}
    \cup {<<Exact("b", 20), Pred("a", "even")>>, <<OneOf("a", {1, 2}), Pred("c", "positive")>>}

(***************************************************************************)
(* DatabaseInstance.__init__: the coordinate -> computer index.            *)
(***************************************************************************)
\* an index in which a later computer takes the place of an earlier one
BuildCoordsLast(cs, n) ==
    [ok |-> TRUE,
     map |-> [c \in UNION {cs[k].coords : k \in 1..n} |->
                CHOOSE k \in 1..n : c \in cs[k].coords
                                    /\ \A j \in (k + 1)..n : c \notin cs[j].coords]]

RECURSIVE BuildCoords(_, _)
\* self.coords after the first n computers; ok is FALSE once a coordinate is
\* found to have two computers
BuildCoords(cs, n) ==
    IF n = 0 THEN [ok |-> TRUE, map |-> EmptyRow]
    ELSE LET p == BuildCoords(cs, n - 1)
         IN  IF ~p.ok THEN p
             ELSE IF cs[n].coords \cap DOMAIN p.map # {}
                  THEN [ok |-> FALSE, map |-> p.map]
                  ELSE [ok |-> TRUE, map |-> p.map @@ [c \in cs[n].coords |-> n]]

(***************************************************************************)
(* _get_dependencies: the recursive closure.  The result is the set and    *)
(* the exceptions the call can raise (the loop over a set visits its       *)
(* members in no fixed order, and the first failing member decides):       *)
(* KeyError for a name with no computer, RecursionError when the depth of  *)
(* the recursion passes the interpreter's limit.                           *)
(***************************************************************************)
_get_dependencies_shallow(idx, cs, ns, fuel) ==
    [errs |-> IF ns \subseteq DOMAIN idx THEN {} ELSE {"KeyError"},
     set  |-> ns \cup UNION {cs[idx[n]].dependencies : n \in ns \cap DOMAIN idx}]

RECURSIVE _get_dependencies_fixpoint(_, _, _, _)
\* a closure that remembers the names it has visited
_get_dependencies_fixpoint(idx, cs, ns, fuel) ==
    LET T == ns \cup UNION {cs[idx[n]].dependencies : n \in ns \cap DOMAIN idx}
    IN  IF T = ns
        THEN [errs |-> IF ns \subseteq DOMAIN idx THEN {} ELSE {"KeyError"}, set |-> ns]
        ELSE _get_dependencies_fixpoint(idx, cs, T, fuel)

RECURSIVE _get_dependencies(_, _, _, _)
_get_dependencies(idx, cs, ns, fuel) ==
    IF fuel = 0 THEN [errs |-> {"RecursionError"}, set |-> {}]
    ELSE LET sub(n) == IF n \in DOMAIN idx
                       THEN _get_dependencies(idx, cs, cs[idx[n]].dependencies, fuel - 1)
                       ELSE [errs |-> {"KeyError"}, set |-> {}]
         IN  [errs |-> UNION {sub(n).errs : n \in ns},
              set  |-> ns \cup UNION {sub(n).set : n \in ns}]

(***************************************************************************)
(* CoordComputer.from_function: new_f and the row-wise compute.            *)
(***************************************************************************)
\* new_f: the user function's rows as a DataFrame over the computer's coords
new_f(cc, d) == Table(cc.coords, UserFn(cc.fn, d))

\* compute(db, df): one call of new_f per row of the parameter table, the
\* parameters written into each result, the results concatenated.
\* pd.concat raises ValueError on an empty list.
compute(cc, param_df) ==
    IF Len(param_df.rows) = 0
    THEN [ok |-> FALSE, err |-> "ValueError: No objects to concatenate", df |-> param_df]
    ELSE [ok  |-> TRUE,
          err |-> "",
          df  |-> Table(cc.coords \cup param_df.cols,
                        Concat([k \in 1..Len(param_df.rows) |->
                                 LET d   == param_df.rows[k]
                                     tmp == new_f(cc, d)
                                 IN  [j \in 1..Len(tmp.rows) |-> d @@ tmp.rows[j]]]))]

(***************************************************************************)
(* DatabaseInstance._filter                                                *)
(***************************************************************************)
\* Python truthiness of v.start / v.stop: None and 0 are falsy
TruthyStart(it) == it.hasStart /\ it.start # 0
TruthyStop(it)  == it.hasStop /\ it.stop # 0

\* the row mask of one item on a value of its column
Mask(it, v) ==
    CASE it.kind = "tuple"    -> v \in it.vals
      [] it.kind = "slice"    -> /\ (TruthyStart(it) => v >= it.start)
                                 /\ (TruthyStop(it) => v < it.stop)
      [] it.kind = "callable" -> Holds(it.pred, v)
      [] OTHER                -> v = it.val

RECURSIVE _filter(_, _)
\* items are applied in dict order to the columns the table has; on a slice
\* whose two conditions are both the constant True, df.loc[True] raises KeyError
_filter(t, sel) ==
    IF Len(sel) = 0 THEN [ok |-> TRUE, err |-> "", df |-> t]
    ELSE LET it == Head(sel)
         IN  IF it.col \notin t.cols THEN _filter(t, Tail(sel))
             ELSE IF it.kind = "slice" /\ ~TruthyStart(it) /\ ~TruthyStop(it)
                  THEN [ok |-> FALSE, err |-> "KeyError: True", df |-> t]
                  ELSE _filter(Table(t.cols,
                                     SelectSeq(t.rows, LAMBDA r : Mask(it, r[it.col]))),
                               Tail(sel))

(***************************************************************************)
(* The body of the join loop (lines 211-228).                              *)
(***************************************************************************)
Applicable(cc, closure, t) ==
    /\ cc.coords \cap closure # {}
    /\ cc.dependencies \subseteq t.cols
    /\ ~(cc.coords \subseteq t.cols)

\* pd.merge: inner on the dependency columns, or cross when there is none
merge(t, tmp_df, deps) ==
    Table(t.cols \cup tmp_df.cols,
          Concat([k \in 1..Len(t.rows) |->
                   LET l == t.rows[k]
                       m == IF deps = {} THEN tmp_df.rows
                            ELSE SelectSeq(tmp_df.rows,
                                           LAMBDA r : Project(r, deps) = Project(l, deps))
                   IN  [j \in 1..Len(m) |-> l @@ m[j]]]))

ParamDf(cc, t) == drop_duplicates(Columns(t, cc.dependencies))

ApplyComputer(cc, t, sel) ==
    LET computed_df == compute(cc, ParamDf(cc, t))
    IN  IF ~computed_df.ok THEN [ok |-> FALSE, err |-> computed_df.err, df |-> t]
        ELSE LET tmp_df == _filter(computed_df.df, sel)
             IN  IF ~tmp_df.ok THEN [ok |-> FALSE, err |-> tmp_df.err, df |-> t]
                 ELSE [ok |-> TRUE, err |-> "",
                       df |-> merge(t, tmp_df.df, cc.dependencies)]

(***************************************************************************)
(* Collapse (lines 231-252): groupby(list(names)).apply(keep_unique_columns)*)
(***************************************************************************)
\* list(names): the iteration order of a frozenset of strings follows their
\* hashes, which the interpreter randomises at each start: every order of
\* the names is possible
NameList(ns) ==
    {nl \in [1..Cardinality(ns) -> ns] :
        \A j, k \in 1..Cardinality(ns) : j # k => nl[j] # nl[k]}

LexLess(r1, r2, nl) ==
    \E k \in 1..Len(nl) : /\ r1[nl[k]] < r2[nl[k]]
                           /\ \A j \in 1..(k - 1) : r1[nl[j]] = r2[nl[j]]

RECURSIVE SortRows(_, _)
SortRows(S, nl) ==
    IF S = {} THEN <<>>
    ELSE LET m == CHOOSE x \in S : \A y \in S \ {x} : LexLess(x, y, nl)
         IN  <<m>> \o SortRows(S \ {m}, nl)

\* the group keys of a grouping by the list of names nl, sorted as groupby
\* sorts them
GroupKeys(t, nl) ==
    SortRows({Project(t.rows[k], Range(nl)) : k \in 1..Len(t.rows)}, nl)

Group(t, ns, key) == Table(t.cols, SelectSeq(t.rows, LAMBDA r : Project(r, ns) = key))

keep_all_rows(g) ==
    LET cols == {c \in g.cols : \A k \in 1..Len(g.rows) : g.rows[k][c] = g.rows[1][c]}
    IN  [cols |-> cols, removed |-> g.cols \ cols,
         rows |-> [k \in 1..Len(g.rows) |-> Project(g.rows[k], cols)]]

\* on one group: the columns equal to their first value everywhere are kept,
\* the others are appended to cols_to_remove; the first row is returned
keep_unique_columns(g) ==
    LET cols == {c \in g.cols : \A k \in 1..Len(g.rows) : g.rows[k][c] = g.rows[1][c]}
    IN  [cols |-> cols, removed |-> g.cols \ cols,
         rows |-> <<Project(g.rows[1], cols)>>]

\* the results of keep_unique_columns on the groups, in key order
Applied(t, nl) ==
    LET keys == GroupKeys(t, nl)
    IN  [k \in 1..Len(keys) |-> keep_unique_columns(Group(t, Range(nl), keys[k]))]

ColsToRemove(t, nl) ==
    LET ap == Applied(t, nl) IN UNION {ap[k].removed : k \in 1..Len(ap)}

\* a collapse that keeps the columns constant in the first group
collapse_by_first_group(t, nl) ==
    LET keys == GroupKeys(t, nl)
        keep == IF Len(keys) = 0 THEN t.cols
                ELSE keep_unique_columns(Group(t, Range(nl), keys[1])).cols
    IN  Table(keep, [k \in 1..Len(keys) |->
                       Project(Group(t, Range(nl), keys[k]).rows[1], keep)])

\* lines 242-243, for list(names) = nl: the results of the groups are
\* concatenated and the columns of cols_to_remove dropped.  When some group
\* has several rows its result (the first row) is not indexed like the group,
\* and apply concatenates the results in key order; when every group is a
\* single row every result is indexed like its group, and apply puts the
\* concatenation back in the row order of df.  Without any group the frame
\* keeps df's columns.
Collapse(t, nl) ==
    LET ap   == Applied(t, nl)
        keys == GroupKeys(t, nl)
        keep == (IF Len(ap) = 0 THEN t.cols ELSE UNION {ap[k].cols : k \in 1..Len(ap)})
                \ ColsToRemove(t, nl)
        indexed_same == \A k \in 1..Len(keys) : Len(Group(t, Range(nl), keys[k]).rows) = 1
    IN  IF indexed_same
        THEN Table(keep, [k \in 1..Len(t.rows) |->
                            Project(keep_unique_columns(Table(t.cols, <<t.rows[k]>>)).rows[1],
                                    keep)])
        ELSE Table(keep,
                   Concat([k \in 1..Len(ap) |->
                            [j \in 1..Len(ap[k].rows) |-> Project(ap[k].rows[j], keep)]]))

(***************************************************************************)
(* The resolution as a state machine.                                      *)
(***************************************************************************)
NoTable == Table({}, <<>>)

NoError == [kind |-> "", rows |-> <<>>, components |-> <<>>, note |-> <<>>]

\* no run_action is running
ActionOff ==
    /\ continue_on_error = FALSE
    /\ action = ""
    /\ single = FALSE
    /\ fails = {}
    /\ locs = NoTable
    /\ apc = "off"
    /\ irow = 0
    /\ results = <<>>
    /\ errors = <<>>
    /\ invocations = <<>>
    /\ raised = NoError
    /\ out = NoTable
    /\ op = ""
    /\ resolves = NoTable
    /\ finvoked = FALSE

\* no cached action is running
CacheOff ==
    /\ force_recompute = FALSE
    /\ fkind = "value"
    /\ files = [p \in {} |-> 0]
    /\ inode = <<>>
    /\ rpc = <<>>
    /\ fd = <<>>
    /\ pos = <<>>
    /\ invoked = <<>>
    /\ ret = <<>>
    /\ intact = {}
    /\ after = <<>>

\* the memo of a new Instance: nothing cached, no table handed out
MemoOff ==
    /\ dbs = <<>>
    /\ built = 0
    /\ heap = <<>>
    /\ memo = <<>>
    /\ handle = 0
    /\ caller = ""
    /\ seen = FALSE
    /\ mark = 0
    /\ first = <<>>
    /\ ncalls = 0

InitResolve ==
    /\ CacheOff
    /\ ActionOff
    /\ MemoOff
    /\ reg \in Registries
    /\ names = {}
    /\ selection_dict = <<>>
    /\ pc = "new"
    /\ coords = EmptyRow
    /\ all_names = {}
    /\ df = NoTable
    /\ i = 0
    /\ calls = <<>>
    /\ progress = FALSE
    /\ cols_to_remove = {}
    /\ res = NoTable
    /\ err = ""

\* Database.initialize(): DatabaseInstance(db)
Initialize ==
    /\ pc = "new"
    /\ LET b == BuildCoords(Computers(reg), Len(Computers(reg)))
       IN  IF b.ok
           THEN pc' = "ready" /\ coords' = b.map /\ err' = err
           ELSE pc' = "raised" /\ coords' = coords /\ err' = "Exception: two computers"
    /\ UNCHANGED <<dvars, mvars, cvars, avars, reg, names, selection_dict, all_names, df, i, calls, progress,
                   cols_to_remove, res>>

\* functools.cache hashes its key (frozenset(names), frozendict(selection_dict))
\* before _get_coords_impl runs (lines 196, 203), and the hash of a frozendict
\* hashes its values.  A slice is hashable from Python 3.12 on; on Python 3.11
\* hash(slice) raises TypeError.  The outcomes of the hashing, "" for a hash:
HashOutcomes(sel) ==
    IF \E j \in 1..Len(sel) : sel[j].kind = "slice"
    THEN {"", "TypeError: unhashable type"}
    ELSE {""}

\* get_coords(names, selection_dict) -> _get_coords_impl, lines 205-207
GetCoords ==
    /\ pc = "ready"
    /\ \E ns \in SUBSET Produced(reg), sel \in Selections :
         \E h \in HashOutcomes(sel) :
         LET d == _get_dependencies(coords, Computers(reg), ns, RecursionLimit)
         IN  /\ names' = ns
             /\ selection_dict' = sel
             /\ IF h # ""
                THEN /\ err' = h
                     /\ pc' = "raised"
                     /\ UNCHANGED <<all_names, df>>
                ELSE IF d.errs = {}
                THEN /\ all_names' = d.set
                     /\ df' = UnitTable
                     /\ pc' = "while"
                     /\ err' = err
                ELSE /\ \E e \in d.errs : err' = e
                     /\ pc' = "raised"
                     /\ UNCHANGED <<all_names, df>>
    /\ UNCHANGED <<dvars, mvars, cvars, avars, reg, coords, i, calls, progress, cols_to_remove, res>>

\* line 209: the test of the while loop
WhileTest ==
    /\ pc = "while"
    /\ IF all_names \subseteq df.cols
       THEN pc' = "collapse" /\ UNCHANGED <<i, progress>>
       ELSE pc' = "for" /\ i' = 1 /\ progress' = FALSE
    /\ UNCHANGED <<dvars, mvars, cvars, avars, reg, names, selection_dict, coords, all_names, df, calls,
                   cols_to_remove, res, err>>

\* lines 210-228: one iteration of the for loop
ForStep ==
    /\ pc = "for"
    /\ i <= Len(Computers(reg))
    /\ LET cc == Computers(reg)[i]
       IN  IF Applicable(cc, all_names, df)
           THEN LET r == ApplyComputer(cc, df, selection_dict)
                IN  /\ calls' = Append(calls, [computer |-> i, param_df |-> ParamDf(cc, df),
                                                 before |-> df])
                    /\ progress' = TRUE
                    /\ IF r.ok
                       THEN df' = r.df /\ i' = i + 1 /\ pc' = pc /\ err' = err
                       ELSE df' = df /\ i' = i /\ pc' = "raised" /\ err' = r.err
           ELSE i' = i + 1 /\ UNCHANGED <<df, calls, progress, pc, err>>
    /\ UNCHANGED <<dvars, mvars, cvars, avars, reg, names, selection_dict, coords, all_names, cols_to_remove, res>>

\* the for loop is over: back to the test of the while loop
ForEnd ==
    /\ pc = "for"
    /\ i > Len(Computers(reg))
    /\ pc' = "while"
    /\ UNCHANGED <<dvars, mvars, cvars, avars, reg, names, selection_dict, coords, all_names, df, i, calls,
                   progress, cols_to_remove, res, err>>

\* lines 231-252
CollapseStep ==
    /\ pc = "collapse"
    /\ IF Cardinality(names) > 0
       THEN /\ \E nl \in NameList(names) :
                 /\ cols_to_remove' = ColsToRemove(df, nl)
                 /\ res' = Collapse(df, nl)
            /\ pc' = "done"
            /\ err' = err
       ELSE /\ pc' = "raised"
            /\ err' = "Exception: Strange"
            /\ UNCHANGED <<cols_to_remove, res>>
    /\ UNCHANGED <<dvars, mvars, cvars, avars, reg, names, selection_dict, coords, all_names, df, i, calls, progress>>

NextResolve == Initialize \/ GetCoords \/ WhileTest \/ ForStep \/ ForEnd \/ CollapseStep

SpecResolve == InitResolve /\ [][NextResolve]_vars

(***************************************************************************)
(* The caching wrapper: cache(saver, open, force_recompute) around an      *)
(* action f, and safe_save around the saver.  Two runs of the wrapped      *)
(* action for the same out_location, in one or in two processes.           *)
(*                                                                         *)
(* A file is an inode: the sequence of chunks written to it, each tagged   *)
(* with the run that wrote it (0 for a hole).  A path names an inode and   *)
(* an open file keeps its inode whatever becomes of the path.              *)
(***************************************************************************)
Runs == {1, 2}

\* the inode of an artifact published before either run, and of a temporary
\* file orphaned by an earlier crash
Earlier == Cardinality(Runs) + 1
Orphan == Cardinality(Runs) + 2

out_location == [stem |-> "out", suffix |-> ".tsv"]

tmp_path_direct(path) == path

\* line 350: path.parent / (path.stem + ".tmp" + suffix)
tmp_path(path) == [stem |-> path.stem \o ".tmp", suffix |-> path.suffix]

Paths == {out_location, tmp_path(out_location)}

NoPath == [stem |-> "", suffix |-> ""]

\* Path.exists()
Exists(path) == files[path] # 0

never_hit(exists, force) == FALSE

\* line 366
CacheHit(exists, force) == exists /\ ~force

\* the artifact a writer w leaves when its writes are all there and alone
Whole(w) == [k \in 1..FileLen |-> w]
Complete(c) == \E w \in Runs \cup {Earlier} : c = Whole(w)

\* file.write at offset k of the content c, by run w (a write past the end
\* leaves a hole)
WriteAt(c, k, w) ==
    IF k < Len(c) THEN [c EXCEPT ![k + 1] = w]
    ELSE c \o [j \in 1..(k - Len(c)) |-> 0] \o <<w>>

\* os.rename(src, dst) on a directory
Rename(dir, src, dst) ==
    IF src = dst THEN dir ELSE [dir EXCEPT ![dst] = dir[src], ![src] = 0]

ResolveOff ==
    /\ reg = 1
    /\ names = {}
    /\ selection_dict = <<>>
    /\ pc = "off"
    /\ coords = EmptyRow
    /\ all_names = {}
    /\ df = NoTable
    /\ i = 0
    /\ calls = <<>>
    /\ progress = FALSE
    /\ cols_to_remove = {}
    /\ res = NoTable
    /\ err = ""
    /\ MemoOff

InitCache ==
    /\ ResolveOff
    /\ ActionOff
    /\ force_recompute \in BOOLEAN
    /\ fkind \in {"value", "writes", "nothing"}
    /\ \E o \in {0, Earlier}, t \in {0, Orphan} :
         files = [q \in Paths |-> IF q = out_location THEN o ELSE t]
    /\ inode = [n \in 1..Orphan |->
                  IF n = Earlier THEN Whole(Earlier)
                  ELSE IF n = Orphan THEN <<Orphan>> ELSE <<>>]
    /\ rpc = [p \in Runs |-> "idle"]
    /\ fd = [p \in Runs |-> 0]
    /\ pos = [p \in Runs |-> 0]
    /\ invoked = [p \in Runs |-> 0]
    /\ ret = [p \in Runs |-> NoPath]
    /\ intact = {}
    /\ after = [p \in Runs |-> {}]

\* new_f(db, out_location, ...): lines 365-367
Call(p) ==
    /\ rpc[p] = "idle"
    /\ after' = [after EXCEPT ![p] = intact]
    /\ IF CacheHit(Exists(out_location), force_recompute)
       THEN /\ rpc' = [rpc EXCEPT ![p] = "returned"]
            /\ ret' = [ret EXCEPT ![p] = out_location]
            /\ intact' = intact \cup {p}
       ELSE /\ rpc' = [rpc EXCEPT ![p] = "invoke"]
            /\ UNCHANGED <<ret, intact>>
    /\ UNCHANGED <<rvars, avars, force_recompute, fkind, files, inode, fd, pos, invoked>>

\* lines 368-370: res = f(db, out_location, ...).  f raises, or returns a
\* value to save, or returns None after writing out_location itself, or
\* returns None having written nothing.
InvokeF(p) ==
    /\ rpc[p] = "invoke"
    /\ invoked' = [invoked EXCEPT ![p] = @ + 1]
    /\ \E outcome \in {"raises", "returns"} :
         IF outcome = "raises"
         THEN /\ rpc' = [rpc EXCEPT ![p] = "raised"]
              /\ intact' = intact \cup {p}
              /\ UNCHANGED <<files, inode, ret>>
         ELSE IF fkind = "value"
         THEN /\ rpc' = [rpc EXCEPT ![p] = "save"]
              /\ UNCHANGED <<files, inode, ret, intact>>
         ELSE /\ rpc' = [rpc EXCEPT ![p] = "returned"]
              /\ ret' = [ret EXCEPT ![p] = out_location]
              /\ intact' = intact \cup {p}
              /\ IF fkind = "writes"
                 THEN /\ files' = [files EXCEPT ![out_location] = p]
                      /\ inode' = [inode EXCEPT ![p] = Whole(p)]
                 ELSE UNCHANGED <<files, inode>>
    /\ UNCHANGED <<rvars, avars, force_recompute, fkind, fd, pos, after>>

\* lines 349-352 and 338-343: the saver refuses the value (line 340), or opens
\* tmp_path for writing, which creates the file or truncates the one there
OpenTmp(p) ==
    /\ rpc[p] = "save"
    /\ \E outcome \in {"raises", "opens"} :
         IF outcome = "raises"
         THEN /\ rpc' = [rpc EXCEPT ![p] = "raised"]
              /\ intact' = intact \cup {p}
              /\ UNCHANGED <<files, inode, fd, pos>>
         ELSE LET t == tmp_path(out_location)
                  n == IF files[t] # 0 THEN files[t] ELSE p
              IN  /\ files' = [files EXCEPT ![t] = n]
                  /\ inode' = [inode EXCEPT ![n] = <<>>]
                  /\ fd' = [fd EXCEPT ![p] = n]
                  /\ pos' = [pos EXCEPT ![p] = 0]
                  /\ rpc' = [rpc EXCEPT ![p] = "writing"]
                  /\ intact' = intact
    /\ UNCHANGED <<rvars, avars, force_recompute, fkind, invoked, ret, after>>

\* line 344 (or 341): the saver writes the next chunk, closing the file after
\* the last one; or it raises
WriteChunk(p) ==
    /\ rpc[p] = "writing"
    /\ \E outcome \in {"raises", "writes"} :
         IF outcome = "raises"
         THEN /\ rpc' = [rpc EXCEPT ![p] = "raised"]
              /\ fd' = [fd EXCEPT ![p] = 0]
              /\ intact' = intact \cup {p}
              /\ UNCHANGED <<inode, pos>>
         ELSE /\ inode' = [inode EXCEPT ![fd[p]] = WriteAt(@, pos[p], p)]
              /\ pos' = [pos EXCEPT ![p] = @ + 1]
              /\ IF pos[p] + 1 = FileLen
                 THEN rpc' = [rpc EXCEPT ![p] = "written"] /\ fd' = [fd EXCEPT ![p] = 0]
                 ELSE UNCHANGED <<rpc, fd>>
              /\ UNCHANGED intact
    /\ UNCHANGED <<rvars, avars, force_recompute, fkind, files, invoked, ret, after>>

\* lines 353 and 376: shutil.move(tmp_path, path), a rename inside one
\* directory, then return out_location; FileNotFoundError without tmp_path
Move(p) ==
    /\ rpc[p] = "written"
    /\ IF Exists(tmp_path(out_location))
       THEN /\ files' = Rename(files, tmp_path(out_location), out_location)
            /\ rpc' = [rpc EXCEPT ![p] = "returned"]
            /\ ret' = [ret EXCEPT ![p] = out_location]
       ELSE /\ rpc' = [rpc EXCEPT ![p] = "raised"]
            /\ UNCHANGED <<files, ret>>
    /\ intact' = intact \cup {p}
    /\ UNCHANGED <<rvars, avars, force_recompute, fkind, inode, fd, pos, invoked, after>>

\* the process of run p is interrupted inside the call
Crash(p) ==
    /\ rpc[p] \in {"invoke", "save", "writing", "written"}
    /\ rpc' = [rpc EXCEPT ![p] = "crashed"]
    /\ fd' = [fd EXCEPT ![p] = 0]
    /\ UNCHANGED <<rvars, avars, force_recompute, fkind, files, inode, pos, invoked, ret,
                   intact, after>>

\* somebody deletes the artifact
Delete ==
    /\ Exists(out_location)
    /\ files' = [files EXCEPT ![out_location] = 0]
    /\ intact' = {}
    /\ UNCHANGED <<rvars, avars, force_recompute, fkind, inode, rpc, fd, pos, invoked, ret, after>>

NextCache ==
    \/ \E p \in Runs : Call(p)
    \/ \E p \in Runs : InvokeF(p)
    \/ \E p \in Runs : OpenTmp(p)
    \/ \E p \in Runs : WriteChunk(p)
    \/ \E p \in Runs : Move(p)
    \/ \E p \in Runs : Crash(p)
    \/ Delete

SpecCache == InitCache /\ [][NextCache]_vars

(***************************************************************************)
(* The action dispatcher: run_action(action, target, selection, single) on *)
(* a target whose location function reads the coordinate a.  The inputs    *)
(* of a call are the table get_coords resolves for the target, the         *)
(* location of each of its rows (NoLocation: absent), and the rows on      *)
(* which the action callback raises.                                       *)
(***************************************************************************)
Target == "T"

\* a location function's answer for no artifact (None, dropped by pd.isna)
NoLocation == 0

Actions == {"compute", "location"}

\* the table get_coords returns for the target's dependencies: a = 1..n
ResolvedCoords(n) == Table({"a"}, [k \in 1..n |-> ("a" :> k)])

\* lines 254-257: the location column is added, rows without location dropped
get_locations(t, loc) ==
    LET with == [k \in 1..Len(t.rows) |-> t.rows[k] @@ ("location" :> loc[t.rows[k]["a"]])]
    IN  Table(t.cols \cup {"location"},
              SelectSeq(with, LAMBDA r : r["location"] # NoLocation))

\* Series.duplicated() at row k: an earlier row has the same location
duplicated(t, k) == \E j \in 1..(k - 1) : t.rows[j]["location"] = t.rows[k]["location"]

later_duplicates(t) ==
    SelectSeq(t.rows, LAMBDA r : \E k \in 1..Len(t.rows) : t.rows[k] = r /\ duplicated(t, k))

\* line 273: locs[locs["location"].isin(locs["location"][duplicated])]
DuplicateRows(t) ==
    LET dups == {t.rows[k]["location"] : k \in {x \in 1..Len(t.rows) : duplicated(t, x)}}
    IN  SelectSeq(t.rows, LAMBDA r : r["location"] \in dups)

\* the action callback of the target on a row: whether it raises, what it returns
ActionFails(r) == r["a"] \in fails
ActionResult(r) == r["a"] * 10 + r["location"]

\* line 287: the note added to the exception of a row
Note(act, r) == <<act, Target, r["location"], Project(r, DOMAIN r \ {"location"})>>

always_raise(coe) == TRUE
never_raise(coe) == FALSE

\* line 288: whether the exception of a row is re-raised at once
Reraise(coe) == ~coe

\* lines 296-300: the results as the column named after the action
WithResults(t, act, rs) ==
    IF Len(t.rows) = 1
    THEN Table(t.cols \cup {act}, <<t.rows[1] @@ (act :> rs[1])>>)
    ELSE Table(t.cols \cup {act}, [k \in 1..Len(t.rows) |-> t.rows[k] @@ (act :> rs[k])])

InitAction ==
    /\ ResolveOff
    /\ CacheOff
    /\ continue_on_error = FALSE
    /\ action = ""
    /\ single = FALSE
    /\ fails = {}
    /\ locs = NoTable
    /\ apc = "new"
    /\ irow = 0
    /\ results = <<>>
    /\ errors = <<>>
    /\ invocations = <<>>
    /\ raised = NoError
    /\ out = NoTable
    /\ op = ""
    /\ resolves = NoTable
    /\ finvoked = FALSE

\* the caller sets inst.continue_on_error = True on the Instance, which
\* __init__ (line 156) leaves in fail-fast mode (apc = "new")
SetContinueOnError ==
    /\ apc = "new"
    /\ continue_on_error' = TRUE
    /\ apc' = "configured"
    /\ UNCHANGED <<rvars, cvars, pvars, action, single, fails, locs, irow, results,
                   errors, invocations, raised, out>>

never_short(act) == FALSE

\* line 274: the action name "location" skips the loop over the rows
ShortCircuit(act) == act = "location"

\* the ways into run_action: the caller's own call, or the wrapper made by
\* precompute(name, action), which passes single=True (line 402)
Entries == {"run_action", "precompute"}

\* lines 270-278: the locations, the duplicate check, the choice of the branch
RunAction ==
    /\ apc \in {"new", "configured"}
    /\ \E entry \in Entries, n \in 1..MaxRows, act \in Actions, sg \in BOOLEAN :
         \E loc \in [1..n -> {NoLocation} \cup (1..MaxLoc)], F \in SUBSET (1..n) :
            LET l == get_locations(ResolvedCoords(n), loc)
            IN  /\ entry = "precompute" => sg
                /\ op' = entry
                /\ resolves' = l
                /\ action' = act
                /\ single' = sg
                /\ fails' = F
                /\ locs' = l
                /\ IF \E k \in 1..Len(l.rows) : duplicated(l, k)
                   THEN /\ apc' = "raised"
                        /\ raised' = [kind |-> "Duplication problem",
                                       rows |-> DuplicateRows(l),
                                       components |-> <<>>, note |-> <<>>]
                        /\ irow' = irow
                   ELSE /\ raised' = raised
                        /\ IF ~ShortCircuit(act)
                           THEN apc' = "loop" /\ irow' = 1
                           ELSE apc' = "finish" /\ irow' = irow
    /\ UNCHANGED <<rvars, cvars, continue_on_error, results, errors, invocations, out,
                   finvoked>>

\* lines 279-292: one row of the loop
ActionStep ==
    /\ apc = "loop"
    /\ irow <= Len(locs.rows)
    /\ invocations' = Append(invocations, irow)
    /\ LET r == locs.rows[irow]
           e == [kind |-> "Exception", rows |-> <<>>, components |-> <<>>,
                 note |-> Note(action, r)]
       IN  IF ActionFails(r)
           THEN IF Reraise(continue_on_error)
                THEN /\ apc' = "raised"
                     /\ raised' = e
                     /\ UNCHANGED <<irow, results, errors>>
                ELSE /\ errors' = Append(errors, e)
                     /\ irow' = irow + 1
                     /\ UNCHANGED <<apc, raised, results>>
           ELSE /\ results' = Append(results, ActionResult(r))
                /\ irow' = irow + 1
                /\ UNCHANGED <<apc, raised, errors>>
    /\ UNCHANGED <<rvars, cvars, pvars, continue_on_error, action, single, fails, locs, out>>

\* lines 293-300: after the last row
LoopEnd ==
    /\ apc = "loop"
    /\ irow > Len(locs.rows)
    /\ IF Len(errors) > 0
       THEN /\ apc' = "raised"
            /\ raised' = [kind |-> "ExceptionGroup", rows |-> <<>>,
                           components |-> errors, note |-> <<action, Target>>]
            /\ locs' = locs
       ELSE /\ apc' = "finish"
            /\ locs' = WithResults(locs, action, results)
            /\ raised' = raised
    /\ UNCHANGED <<rvars, cvars, pvars, continue_on_error, action, single, fails, irow,
                   results, errors, invocations, out>>

\* lines 302-305, and _extract_single (lines 260-264)
Finish ==
    /\ apc = "finish"
    /\ IF single
       THEN IF Len(locs.rows) # 1
            THEN /\ apc' = "raised"
                 /\ raised' = [kind |-> "Problem. Expected a single line",
                                rows |-> locs.rows, components |-> <<>>, note |-> <<>>]
                 /\ out' = out
            ELSE /\ apc' = "returned"
                 /\ out' = Table({action}, <<Project(locs.rows[1], {action})>>)
                 /\ raised' = raised
       ELSE /\ apc' = "returned"
            /\ out' = locs
            /\ raised' = raised
    /\ UNCHANGED <<rvars, cvars, pvars, continue_on_error, action, single, fails, locs,
                   irow, results, errors, invocations>>

prerequisite_ended(a) == a \in {"returned", "raised"}

\* line 402 has returned: the statement after it is reached
PrerequisiteDone(a) == a = "returned"

\* precompute's new_f, line 403: the wrapped function is invoked once
\* run_action(action, name, selection, single=True) has returned
WrappedF ==
    /\ op = "precompute"
    /\ PrerequisiteDone(apc)
    /\ ~finvoked
    /\ finvoked' = TRUE
    /\ UNCHANGED <<rvars, cvars, continue_on_error, action, single, fails, locs, apc, irow,
                   results, errors, invocations, raised, out, op, resolves>>

\* get_single_location (lines 266-267): the callee DatabaseInstance._extract_unique
\* is looked up before the argument get_locations(...) is evaluated, and the
\* class has no such attribute
GetSingleLocation ==
    /\ apc \in {"new", "configured"}
    /\ \E n \in 1..MaxRows :
         \E loc \in [1..n -> {NoLocation} \cup (1..MaxLoc)] :
            resolves' = get_locations(ResolvedCoords(n), loc)
    /\ op' = "get_single_location"
    /\ apc' = "raised"
    /\ raised' = [kind |-> "AttributeError", rows |-> <<>>, components |-> <<>>,
                   note |-> <<>>]
    /\ UNCHANGED <<rvars, cvars, continue_on_error, action, single, fails, locs, irow,
                   results, errors, invocations, out, finvoked>>

NextAction ==
    \/ SetContinueOnError \/ RunAction \/ ActionStep \/ LoopEnd \/ Finish
    \/ WrappedF \/ GetSingleLocation

SpecAction == InitAction /\ [][NextAction]_vars

(***************************************************************************)
(* Building a registry: Database(name), declare, join, initialize.         *)
(***************************************************************************)
\* Database.__init__ (lines 110-113)
NewDatabase == [coord_computers |-> <<>>, data |-> {}]

\* the objects a script declares: CoordComputers and Data (by name)
ComputerPool ==
    {CC({"a"}, {}, "range"), CC({"b"}, {"a"}, "times10"), CC({"b", "c"}, {"a"}, "pair")}
DataPool == {Target}

InitDeclare ==
    /\ CacheOff
    /\ ActionOff
    /\ dbs = <<NewDatabase, NewDatabase>>
    /\ built = 0
    /\ heap = <<>>
    /\ memo = <<>>
    /\ handle = 0
    /\ caller = ""
    /\ seen = FALSE
    /\ mark = 0
    /\ first = <<>>
    /\ ncalls = 0
    /\ reg = 1
    /\ names = {}
    /\ selection_dict = <<>>
    /\ pc = "new"
    /\ coords = EmptyRow
    /\ all_names = {}
    /\ df = NoTable
    /\ i = 0
    /\ calls = <<>>
    /\ progress = FALSE
    /\ cols_to_remove = {}
    /\ res = NoTable
    /\ err = ""

\* declare(o) for a CoordComputer (lines 117-118), on a Database made by
\* Database(name); on a joined Database it lists what a further join with a
\* Database of that one computer lists
DeclareComputer(d) ==
    /\ pc = "new"
    /\ d <= 2
    /\ Len(dbs[1].coord_computers) + Len(dbs[2].coord_computers) < MaxDeclared
    /\ \E cc \in ComputerPool :
         dbs' = [dbs EXCEPT ![d].coord_computers = Append(@, cc)]
    /\ UNCHANGED <<cvars, avars, mvars, built, reg, names, selection_dict, pc, coords,
                   all_names, df, i, calls, progress, cols_to_remove, res, err>>

\* declare(o) for a Data (lines 119-122): a name already there raises
DeclareData(d) ==
    /\ pc = "new"
    /\ d <= 2
    /\ \E o \in DataPool :
         IF o \in dbs[d].data
         THEN err' = "Exception: Data already exists" /\ dbs' = dbs
         ELSE err' = err /\ dbs' = [dbs EXCEPT ![d].data = @ \cup {o}]
    /\ UNCHANGED <<cvars, avars, mvars, built, reg, names, selection_dict, pc, coords,
                   all_names, df, i, calls, progress, cols_to_remove, res>>

\* Database.join(d1, d2) (lines 135-144): a new Database on which the
\* computers and the data of d1, then of d2, are declared; the declare of a
\* data name already brought in raises, and no Database is returned
Join(d1, d2) ==
    /\ pc = "new"
    /\ Len(dbs) < MaxDbs
    /\ IF dbs[d1].data \cap dbs[d2].data # {}
       THEN err' = "Exception: Data already exists" /\ dbs' = dbs
       ELSE /\ err' = err
            /\ dbs' = Append(dbs,
                   [coord_computers |-> dbs[d1].coord_computers \o dbs[d2].coord_computers,
                    data |-> dbs[d1].data \cup dbs[d2].data])
    /\ UNCHANGED <<cvars, avars, mvars, built, reg, names, selection_dict, pc, coords,
                   all_names, df, i, calls, progress, cols_to_remove, res>>

\* d.initialize() (lines 130-132): DatabaseInstance(d), lines 153-162
InitializeDb(d) ==
    /\ pc = "new"
    /\ built' = d
    /\ LET cs == dbs[d].coord_computers
           b  == BuildCoords(cs, Len(cs))
       IN  IF b.ok
           THEN pc' = "ready" /\ coords' = b.map /\ err' = ""
           ELSE pc' = "raised" /\ coords' = coords /\ err' = "Exception: two computers"
    /\ UNCHANGED <<cvars, avars, mvars, dbs, reg, names, selection_dict, all_names, df, i,
                   calls, progress, cols_to_remove, res>>

NextDeclare ==
    \/ \E d \in 1..Len(dbs) : DeclareComputer(d)
    \/ \E d \in 1..Len(dbs) : DeclareData(d)
    \/ \E d1, d2 \in 1..Len(dbs) : Join(d1, d2)
    \/ \E d \in 1..Len(dbs) : InitializeDb(d)

SpecDeclare == InitDeclare /\ [][NextDeclare]_vars

(***************************************************************************)
(* One Instance over several calls: get_coords, get_locations and          *)
(* run_action all resolve their key through _get_coords_impl, which        *)
(* functools.cache memoizes (line 203), and get_coords hands a deep copy   *)
(* of the cached table to its caller (line 196).  DataFrames are objects:  *)
(* heap holds them by identity, so that a change made in place through one *)
(* reference is seen through every other reference to the same object.     *)
(***************************************************************************)
InstanceRegistries == {1, 4}

\* the filters of the calls; the last two are one dict written in two orders
InstanceSelections ==
    {<<>>, <<Exact("a", 5)>>,
     <<Exact("b", 20), Pred("a", "even")>>, <<Pred("a", "even"), Exact("b", 20)>>}

InstanceNames == {{"a"}, {"a", "b"}}

Callers == {"get_coords", "get_locations", "run_action"}

\* the target's location function reads a (db.data[name].dependencies), and
\* gives no location for an even a
TargetDependencies == {"a"}
TargetLocation == [a \in 1..(MaxA + 1) |-> IF a % 2 = 1 THEN a ELSE NoLocation]

\* the key of functools.cache: (frozenset(names), frozendict(selection_dict));
\* a frozendict compares as a dict does, whatever the order of its items
Key(ns, sel) == <<ns, Range(sel)>>

never_cached(m, key) == FALSE

\* the lookup of functools.cache
Cached(m, key) == key \in DOMAIN m

no_copy(h, id) == [heap |-> h, id |-> id]

\* DataFrame.copy(deep=True): a new object with the same columns and rows
copy_deep(h, id) == [heap |-> Append(h, h[id]), id |-> Len(h) + 1]

\* what a caller of get_coords may do to the table it received, in place
Mutations == {"none", "overwrite"}
Mutated(t, m) ==
    IF m = "overwrite"
    THEN Table(t.cols \cup {"note"},
               [k \in 1..Len(t.rows) |-> [c \in t.cols \cup {"note"} |-> 0]])
    ELSE t

\* line 256: coords["location"] = ..., in place
WithLocation(t, loc) ==
    Table(t.cols \cup {"location"},
          [k \in 1..Len(t.rows) |-> t.rows[k] @@ ("location" :> loc[t.rows[k]["a"]])])

InitInstance ==
    /\ CacheOff
    /\ ActionOff
    /\ MemoOff
    /\ reg \in InstanceRegistries
    /\ names = {}
    /\ selection_dict = <<>>
    /\ pc = "new"
    /\ coords = EmptyRow
    /\ all_names = {}
    /\ df = NoTable
    /\ i = 0
    /\ calls = <<>>
    /\ progress = FALSE
    /\ cols_to_remove = {}
    /\ res = NoTable
    /\ err = ""

\* a call of get_coords(names, selection_dict), directly or from get_locations
\* (line 255) or from run_action (line 271): the lookup of the memo, then on a
\* miss lines 205-207.  An earlier call that raised has left the Instance as
\* it was.
CallResolve ==
    /\ pc = "ready" \/ (pc = "raised" /\ ncalls > 0)
    /\ ncalls < MaxCalls
    /\ \E c \in Callers, ns \in InstanceNames, sel \in InstanceSelections :
         \E h \in HashOutcomes(sel) :
         LET d == _get_dependencies(coords, Computers(reg), ns, RecursionLimit)
         IN  /\ c # "get_coords" => ns = TargetDependencies
             /\ caller' = c
             /\ names' = ns
             /\ selection_dict' = sel
             /\ seen' = (Key(ns, sel) \in DOMAIN first)
             /\ IF h # ""
                THEN /\ err' = h
                     /\ pc' = "raised"
                     /\ UNCHANGED <<all_names, df>>
                ELSE IF Cached(memo, Key(ns, sel))
                THEN /\ pc' = "copy"
                     /\ err' = ""
                     /\ UNCHANGED <<all_names, df>>
                ELSE IF d.errs = {}
                THEN /\ all_names' = d.set
                     /\ df' = UnitTable
                     /\ pc' = "while"
                     /\ err' = ""
                ELSE /\ \E e \in d.errs : err' = e
                     /\ pc' = "raised"
                     /\ UNCHANGED <<all_names, df>>
    /\ ncalls' = ncalls + 1
    /\ mark' = Len(calls)
    /\ handle' = 0
    /\ UNCHANGED <<dvars, cvars, avars, reg, coords, i, calls, progress, cols_to_remove, res,
                   heap, memo, first>>

\* _get_coords_impl has returned res: functools.cache keeps that object
Store ==
    /\ pc = "done"
    /\ LET key == Key(names, selection_dict)
       IN  /\ heap' = Append(heap, res)
           /\ memo' = (key :> (Len(heap) + 1)) @@ memo
           /\ first' = first @@ (key :> res)
    /\ pc' = "copy"
    /\ UNCHANGED <<dvars, cvars, avars, reg, names, selection_dict, coords, all_names, df, i,
                   calls, progress, cols_to_remove, res, err, handle, caller, seen, mark,
                   ncalls>>

\* line 196: .copy(deep=True) of the memoized table, returned by get_coords
Copy ==
    /\ pc = "copy"
    /\ LET c == copy_deep(heap, memo[Key(names, selection_dict)])
       IN  heap' = c.heap /\ handle' = c.id
    /\ pc' = "caller"
    /\ UNCHANGED <<dvars, cvars, avars, reg, names, selection_dict, coords, all_names, df, i,
                   calls, progress, cols_to_remove, res, err, memo, caller, seen, mark,
                   first, ncalls>>

\* what the caller does with the table of get_coords: a caller outside the
\* class changes it in place as it likes; get_locations adds the location
\* column in place (line 256) and returns a new table without the rows that
\* have no location (line 257); run_action then adds the result column to
\* that new table (lines 296-300)
Use ==
    /\ pc = "caller"
    /\ IF caller = "get_coords"
       THEN /\ \E m \in Mutations : heap' = [heap EXCEPT ![handle] = Mutated(@, m)]
            /\ handle' = handle
       ELSE LET with == WithLocation(heap[handle], TargetLocation)
                l    == Table(with.cols,
                              SelectSeq(with.rows, LAMBDA r : r["location"] # NoLocation))
                rs   == [k \in 1..Len(l.rows) |-> ActionResult(l.rows[k])]
            IN  /\ heap' = Append([heap EXCEPT ![handle] = with],
                                   IF caller = "run_action"
                                   THEN WithResults(l, "compute", rs) ELSE l)
                /\ handle' = Len(heap) + 1
    /\ pc' = "ready"
    /\ UNCHANGED <<dvars, cvars, avars, reg, names, selection_dict, coords, all_names, df, i,
                   calls, progress, cols_to_remove, res, err, memo, caller, seen, mark,
                   first, ncalls>>

NextInstance ==
    \/ Initialize \/ CallResolve
    \/ WhileTest \/ ForStep \/ ForEnd \/ CollapseStep
    \/ Store \/ Copy \/ Use

SpecInstance == InitInstance /\ [][NextInstance]_vars

(***************************************************************************)
(* Properties of the resolution.                                           *)
(***************************************************************************)
\* the computer producing n in registry r (used once the index is built)
Producer(r, n) == Computers(r)[coords[n]]

RECURSIVE ClosureFix(_, _)
\* the transitive dependency closure, as the least fixed point: S plus the
\* dependencies of the producers of its members, until nothing is added
ClosureFix(r, S) ==
    LET T == S \cup UNION {Producer(r, n).dependencies : n \in S \cap DOMAIN coords}
    IN  IF T = S THEN S ELSE ClosureFix(r, T)

Returned == pc = "done"

\* the rows of a table as the set of their values on the columns cs
Keys(t, cs) == {Project(t.rows[k], cs) : k \in 1..Len(t.rows)}

\* C1: when get_coords returns a table, the requested names are columns of it
\* and no two of its rows have the same values on the requested names.
C1_Uniqueness ==
    Returned =>
        /\ names \subseteq res.cols
        /\ \A k1, k2 \in 1..Len(res.rows) :
               k1 # k2 => Project(res.rows[k1], names) # Project(res.rows[k2], names)

\* C1 witness: a returned table of several rows where the collapse had several
\* joined rows to reduce to one in some group.
C1_Witness ==
    /\ Returned
    /\ Len(res.rows) >= 2
    /\ Len(df.rows) > Len(res.rows)
    /\ Cardinality(Keys(df, df.cols)) > Len(res.rows)

\* C4: the set computed by the dependency closure is the transitive
\* dependency closure of the requested names, and when the join loop has
\* exited every name of that closure is a column of the accumulated table.
C4_Closure ==
    /\ pc \in {"while", "for", "collapse", "done"} => all_names = ClosureFix(reg, names)
    /\ pc \in {"collapse", "done"} => ClosureFix(reg, names) \subseteq df.cols

\* C4 witness: the loop has exited for a request whose closure holds a name
\* that is neither requested nor a direct dependency of a requested name.
C4_Witness ==
    /\ pc = "collapse"
    /\ \E n \in all_names :
          /\ n \notin names
          /\ \A m \in names : n \notin Producer(reg, m).dependencies
          /\ n \in df.cols

\* what the filter item asks of a value of its column: equal, member,
\* start <= value < stop (an absent bound does not constrain), predicate true
Satisfies(it, v) ==
    CASE it.kind = "exact"    -> v = it.val
      [] it.kind = "tuple"    -> v \in it.vals
      [] it.kind = "slice"    -> /\ (it.hasStart => it.start <= v)
                                 /\ (it.hasStop => v < it.stop)
      [] OTHER                -> Holds(it.pred, v)

\* no name reachable from ns lacks a computer, and none depends on itself
FullySpecified(r, ns) == ClosureFix(r, ns) \subseteq DOMAIN coords
Acyclic(r, ns) ==
    \A n \in ClosureFix(r, ns) \cap DOMAIN coords :
        n \notin ClosureFix(r, Producer(r, n).dependencies)

\* the outputs of computer cc on the parameters d that the filter admits,
\* each with its parameters
FilteredOutputs(cc, d, sel) ==
    {row \in {d @@ o : o \in Range(UserFn(cc.fn, d))} :
        \A j \in 1..Len(sel) :
            sel[j].col \in DOMAIN row => Satisfies(sel[j], row[sel[j].col])}

RECURSIVE JoinSet(_, _, _, _, _)
\* the relational join of the filtered outputs of the computers todo, as a set
\* of rows over cs, each computer joined once its dependencies are columns
JoinSet(r, sel, T, cs, todo) ==
    IF \A k \in todo : ~(Computers(r)[k].dependencies \subseteq cs) THEN T
    ELSE LET k  == CHOOSE x \in todo : Computers(r)[x].dependencies \subseteq cs
             cc == Computers(r)[k]
         IN  JoinSet(r, sel,
                     UNION {{t @@ o : o \in FilteredOutputs(cc, Project(t, cc.dependencies), sel)}
                            : t \in T},
                     cs \cup cc.coords, todo \ {k})

\* the distinct combinations of the names ns that occur in the join
Combinations(r, ns, sel) ==
    LET needed == {k \in 1..Len(Computers(r)) :
                      Computers(r)[k].coords \cap ClosureFix(r, ns) # {}}
    IN  {Project(t, ns) : t \in JoinSet(r, sel, {EmptyRow}, {}, needed)}

NoSlice(sel) == \A j \in 1..Len(sel) : sel[j].kind # "slice"

\* C2: on an acyclic registry whose closure names all have a computer, and for a
\* filter of exact values, allowed sets and predicates, a call of get_coords for
\* at least one name returns, with exactly one row for each distinct combination
\* of the requested names in the join of the computers' filtered outputs and no
\* other row; for a = 1..3 and b = a*10 these are (1,10), (2,20), (3,30).
C2_Completeness ==
    /\ ( /\ pc \in {"done", "raised"}
         /\ names # {}
         /\ FullySpecified(reg, names) /\ Acyclic(reg, names)
         /\ NoSlice(selection_dict) )
       => /\ Returned
          /\ Keys(res, names) = Combinations(reg, names, selection_dict)
          /\ Len(res.rows) = Cardinality(Combinations(reg, names, selection_dict))
    /\ ( /\ pc \in {"done", "raised"}
         /\ reg = 1 /\ names = {"a", "b"} /\ selection_dict = <<>> )
       => /\ Returned
          /\ Keys(res, names) = {("a" :> k) @@ ("b" :> (10 * k)) : k \in 1..MaxA}
          /\ Len(res.rows) = MaxA

\* C3: every row get_coords returns satisfies every filter item whose column is
\* a column of the result.
C3_FilterSoundness ==
    Returned =>
        \A k \in 1..Len(res.rows), j \in 1..Len(selection_dict) :
            selection_dict[j].col \in res.cols
                => Satisfies(selection_dict[j], res.rows[k][selection_dict[j].col])

\* the request is for at least one name, over computers that form a DAG in
\* which every closure name has a producer (the user functions of the
\* registries all return their produced columns)
WellFormed == names # {} /\ FullySpecified(reg, names) /\ Acyclic(reg, names)

\* the computers applied so far, in order
AppliedComputers == [k \in 1..Len(calls) |-> calls[k].computer]

\* C16: on such a registry every scan of the computers that ends was made with
\* a closure column missing and has applied at least one computer, no computer
\* is applied twice (so the scans are at most as many as the computers), and a
\* call of get_coords that has ended has returned.
C16_Termination ==
    WellFormed =>
        /\ (pc = "for" /\ i > Len(Computers(reg))) => progress
        /\ (pc = "for" /\ i = 1) => ~(all_names \subseteq df.cols)
        /\ \A j, k \in 1..Len(calls) : j # k => AppliedComputers[j] # AppliedComputers[k]
        /\ pc \notin {"new", "ready", "while", "for", "collapse"} => pc = "done"

\* the request is for names whose closure holds a name that depends on itself
Cyclic == names # {} /\ FullySpecified(reg, names) /\ ~Acyclic(reg, names)

\* a call of get_coords was made
Requested == pc \notin {"new", "ready"}

\* C17 as claimed: on a request whose computers contain a dependency cycle the
\* resolution is in the join loop, where no computer is applicable; it has
\* neither left the loop nor raised, and no compute was invoked.
C17_Stall ==
    (Requested /\ Cyclic) =>
        /\ pc \in {"while", "for"}
        /\ \A k \in 1..Len(Computers(reg)) : ~Applicable(Computers(reg)[k], all_names, df)
        /\ calls = <<>>

\* C17 amended: on a request whose computers contain a dependency cycle
\* get_coords has raised, the join loop was never entered (no closure, no
\* accumulating table) and no compute was invoked: the dependency closure
\* raised RecursionError, unless the filter holds a slice that the
\* interpreter could not hash for the cache key, which raised TypeError
\* before the closure.
C17_CycleRaises ==
    (Requested /\ Cyclic) =>
        /\ pc = "raised"
        /\ err \in {"RecursionError"} \cup (HashOutcomes(selection_dict) \ {""})
        /\ all_names = {} /\ df = NoTable
        /\ calls = <<>>

\* C17 witness: b is requested where a is computed from b and b from a, and
\* the call has raised RecursionError.
C17_Witness ==
    /\ pc = "raised" /\ err = "RecursionError"
    /\ names = {"b"}
    /\ Producer(reg, "b").dependencies = {"a"}
    /\ Producer(reg, "a").dependencies = {"b"}

\* the groups of the joined rows, by the values of the requested names
Groups == Keys(df, names)

\* the columns whose value is the same in all the rows of the group of key
ConstantIn(key) ==
    LET g == Group(df, names, key)
    IN  {c \in g.cols : \A k \in 1..Len(g.rows) : g.rows[k][c] = g.rows[1][c]}

\* the rows of the result for the group of key
OutputRows(key) == {k \in 1..Len(res.rows) : Project(res.rows[k], names) = key}

\* C18 as claimed: the output row of each group has exactly the columns that
\* are constant in that group, whatever they are in the other groups.
C18_PerGroup ==
    Returned =>
        \A key \in Groups :
            \E k \in OutputRows(key) : DOMAIN res.rows[k] = ConstantIn(key)

\* C18 amended: the result has one row per group, the first joined row of the
\* group, and its columns are those constant inside every group: a column
\* that varies inside some group is dropped from all rows; the requested
\* columns are always kept.
C18_CollapseGlobal ==
    (Returned /\ Groups # {}) =>
        /\ res.cols = {c \in df.cols : \A key \in Groups : c \in ConstantIn(key)}
        /\ names \subseteq res.cols
        /\ Len(res.rows) = Cardinality(Groups)
        /\ \A key \in Groups :
              \E k \in OutputRows(key) :
                  res.rows[k] = Project(Group(df, names, key).rows[1], res.cols)

\* C18 witness: a column is constant in one group and varies in another, and
\* the result does not have it.
C18_Witness ==
    /\ Returned
    /\ \E c \in df.cols \ res.cols :
          \E k1, k2 \in Groups : c \in ConstantIn(k1) /\ c \notin ConstantIn(k2)

\* C19: in a resolution over an acyclic registry, every compute invocation is
\* of a computer that produces a closure name and whose dependency columns
\* were all in the accumulating table, no computer is invoked twice, and the
\* parameter table of the invocation holds each distinct combination of the
\* dependency values of the accumulating table exactly once and nothing else.
C19_InvocationDiscipline ==
    WellFormed =>
        \A k \in 1..Len(calls) :
            LET cc     == Computers(reg)[calls[k].computer]
                before == calls[k].before
                p      == calls[k].param_df
            IN  /\ cc.coords \cap all_names # {}
                /\ cc.dependencies \subseteq before.cols
                /\ \A j \in 1..Len(calls) : j # k => calls[j].computer # calls[k].computer
                /\ p.cols = cc.dependencies
                /\ Range(p.rows) = Keys(before, cc.dependencies)
                /\ \A j1, j2 \in 1..Len(p.rows) : j1 # j2 => p.rows[j1] # p.rows[j2]

(***************************************************************************)
(* Properties of the registry.                                             *)
(***************************************************************************)
\* the names produced by more than one entry of the list of computers cs
MultiplyProduced(cs) ==
    {n \in UNION {cs[k].coords : k \in 1..Len(cs)} :
        \E j, k \in 1..Len(cs) : j # k /\ n \in cs[j].coords /\ n \in cs[k].coords}

\* C14: whatever declare and join calls made the Database, initialize() raises
\* exactly when some coordinate name is produced by more than one entry of its
\* list of computers (a joined Database lists the entries of its parts), and
\* otherwise the index maps each produced name, and nothing else, to the one
\* entry producing it.
C14_SingleProducer ==
    built # 0 =>
        LET cs == dbs[built].coord_computers
        IN  /\ pc \in {"ready", "raised"}
            /\ pc = "raised" <=> MultiplyProduced(cs) # {}
            /\ pc = "raised" => err = "Exception: two computers"
            /\ pc = "ready" =>
                  /\ DOMAIN coords = UNION {cs[k].coords : k \in 1..Len(cs)}
                  /\ \A n \in DOMAIN coords :
                        \A k \in 1..Len(cs) : n \in cs[k].coords <=> k = coords[n]

\* C14 witness: initialize() raised on the join of two Databases neither of
\* which has a name produced twice, and which do not declare the same computer.
C14_Witness ==
    /\ built = 3 /\ pc = "raised"
    /\ MultiplyProduced(dbs[1].coord_computers) = {}
    /\ MultiplyProduced(dbs[2].coord_computers) = {}
    /\ Len(dbs[1].coord_computers) = 2
    /\ \A j \in 1..Len(dbs[1].coord_computers), k \in 1..Len(dbs[2].coord_computers) :
          dbs[1].coord_computers[j] # dbs[2].coord_computers[k]

(***************************************************************************)
(* Properties of the memo.                                                 *)
(***************************************************************************)
CurrentKey == Key(names, selection_dict)

\* C11: once get_coords has returned for a key, the key stays in the memo for
\* the life of the Instance, and a later call resolving the same key, through
\* get_coords, get_locations or run_action, invokes no coordinate computer,
\* does not raise, and receives a table equal to the first result.
C11_Memoization ==
    /\ DOMAIN first \subseteq DOMAIN memo
    /\ seen =>
          /\ Len(calls) = mark
          /\ pc \in {"copy", "caller", "ready"}
          /\ pc = "caller" => heap[handle] = first[CurrentKey]

\* C11 witness: the third call on the Instance, made through run_action with
\* the items of its filter in another order than the call that computed the
\* table, received its table without any compute invocation.
C11_Witness ==
    /\ ncalls = 3 /\ seen /\ caller = "run_action"
    /\ Len(selection_dict) = 2
    /\ pc = "caller"
    /\ mark > 0 /\ Len(calls) = mark
    /\ Len(heap) = 3

\* C12: whatever callers did to the tables they received (get_locations its
\* location column and dropped rows, run_action its result column, a caller of
\* get_coords any change in place), every cached table still has the columns
\* and rows of the first result for its key, no caller holds the cached object
\* itself, and a get_coords for a key returns the columns and rows of the
\* first call.
C12_DefensiveCopy ==
    /\ \A k \in DOMAIN memo : k \in DOMAIN first /\ heap[memo[k]] = first[k]
    /\ handle # 0 => \A k \in DOMAIN memo : memo[k] # handle
    /\ pc = "caller" =>
          /\ heap[handle].cols = first[CurrentKey].cols
          /\ heap[handle].rows = first[CurrentKey].rows

\* C12 witness: get_locations, then a get_coords whose caller overwrote its
\* table, both for one key; a third call, get_coords for that key, has just
\* received a table.
C12_Witness ==
    /\ ncalls = 3 /\ seen /\ caller = "get_coords" /\ pc = "caller"
    /\ Len(calls) = 1
    /\ Len(heap) = 5
    /\ "location" \in heap[2].cols
    /\ "note" \in heap[4].cols
    /\ Len(heap[handle].rows) > 1

(***************************************************************************)
(* Properties of the caching wrapper.                                      *)
(***************************************************************************)
Alone(p) == \A q \in Runs \ {p} : rpc[q] = "idle"

\* C5 as claimed: recomputation not forced, whatever the wrapped function does
\* (return a value to save, or return nothing): a call made after another call
\* returned, the target not deleted in between, invokes nothing, the two calls
\* invoke the function at most once in total, and the second returns the
\* identity the first returned.
C5_AnyFunction ==
    \A p, q \in Runs :
        (p # q /\ ~force_recompute /\ p \in after[q] /\ rpc[p] = "returned") =>
            /\ invoked[q] = 0
            /\ invoked[p] + invoked[q] <= 1
            /\ (rpc[q] = "returned" => ret[q] = ret[p])

\* C5 amended: recomputation not forced, the wrapped function returns a value
\* to save or writes the target itself, and the first call returned: a call
\* made after it, the target not deleted in between, invokes nothing and
\* returns the same identity; the function is invoked at most once in total.
C5_Idempotent ==
    \A p, q \in Runs :
        ( /\ p # q /\ ~force_recompute /\ p \in after[q]
          /\ fkind # "nothing" /\ rpc[p] = "returned" ) =>
            /\ invoked[q] = 0
            /\ invoked[p] + invoked[q] <= 1
            /\ rpc[q] = "returned"
            /\ ret[q] = ret[p] /\ ret[q] = out_location

\* C5 witness: the first call computed and saved a value, the second came
\* after it and returned without invoking the function.
C5_Witness ==
    \E p, q \in Runs :
        /\ p # q /\ ~force_recompute /\ fkind = "value"
        /\ p \in after[q]
        /\ invoked[p] = 1 /\ rpc[p] = "returned"
        /\ invoked[q] = 0 /\ rpc[q] = "returned"

\* C6: one run of a cached action whose function returns a value, no artifact
\* published before: until the run has returned there is no file at the target,
\* wherever the run is interrupted, and a file at the target is a complete one.
C6_AtomicPublish ==
    \A p \in Runs :
        (fkind = "value" /\ Alone(p) /\ files[out_location] # Earlier) =>
            /\ (rpc[p] # "returned" => ~Exists(out_location))
            /\ (Exists(out_location) => Complete(inode[files[out_location]]))

\* C6 witness: the run was interrupted during its write of the temporary
\* file, which is left partial, and there is no file at the target.
C6_Witness ==
    \E p \in Runs :
        /\ fkind = "value" /\ Alone(p)
        /\ rpc[p] = "crashed"
        /\ Exists(tmp_path(out_location))
        /\ inode[files[tmp_path(out_location)]] = <<p>>
        /\ ~Exists(out_location)

\* C7: with a function that returns a value, whatever the interleaving of the
\* two runs, a file at the target is a complete artifact written by one run.
C7_ConcurrentPublish ==
    fkind = "value" =>
        (Exists(out_location) => Complete(inode[files[out_location]]))

(***************************************************************************)
(* Properties of the action dispatcher.                                    *)
(***************************************************************************)
Called == apc \notin {"off", "new", "configured"}
\* run_action has ended
Ended == op \in Entries /\ apc \in {"returned", "raised"}

\* the rows of locs whose location is the location of another row
SharedRows == {k \in 1..Len(locs.rows) :
                 \E j \in 1..Len(locs.rows) :
                    j # k /\ locs.rows[j]["location"] = locs.rows[k]["location"]}

\* the rows of locs on which the action fails, in row order
RECURSIVE FailingUpTo(_)
FailingUpTo(n) ==
    IF n = 0 THEN <<>>
    ELSE IF locs.rows[n]["a"] \in fails THEN Append(FailingUpTo(n - 1), n)
         ELSE FailingUpTo(n - 1)
Failing == FailingUpTo(Len(locs.rows))

\* C8: when two resolved rows have the same location, run_action, whatever the
\* action name, raises the duplicate error, which reports every row whose
\* location is shared with another row, and no action callback was invoked.
C8_DuplicateFailsFast ==
    (Called /\ SharedRows # {}) =>
        /\ apc = "raised"
        /\ raised.kind = "Duplication problem"
        /\ Range(raised.rows) = {locs.rows[k] : k \in SharedRows}
        /\ Len(raised.rows) = Cardinality(SharedRows)
        /\ invocations = <<>>

\* C8 witness: the action is "location", three rows resolved, two of them with
\* the same location, the first and the last.
C8_Witness ==
    /\ apc = "raised" /\ action = "location"
    /\ Len(locs.rows) = 3
    /\ SharedRows = {1, 3}

\* C9: with continue_on_error set, once run_action has ended on N rows without
\* duplicate location, the action has been invoked exactly once on each row in
\* row order; if it failed on some row, one aggregate error was raised after
\* the last row, holding exactly the failures in row order, each with its row's
\* location and coordinates, and nothing was returned; if it failed on none,
\* the table is returned with one result per row (the value of the single row
\* in single-result mode, which requires one row).
C9_ContinueOnError ==
    /\ (Called /\ continue_on_error /\ action # "location")
          => (raised.kind = "ExceptionGroup" => irow = Len(locs.rows) + 1)
    /\ (Ended /\ continue_on_error /\ action # "location" /\ SharedRows = {}) =>
          /\ invocations = [k \in 1..Len(locs.rows) |-> k]
          /\ Failing # <<>> =>
                /\ apc = "raised" /\ raised.kind = "ExceptionGroup"
                /\ raised.note = <<action, Target>>
                /\ Len(raised.components) = Len(Failing)
                /\ \A k \in 1..Len(Failing) :
                      raised.components[k].note =
                          <<action, Target, locs.rows[Failing[k]]["location"],
                            ("a" :> locs.rows[Failing[k]]["a"])>>
                /\ out = NoTable
          /\ (Failing = <<>> /\ ~single) =>
                /\ apc = "returned"
                /\ out.cols = {"a", "location", action}
                /\ Len(out.rows) = Len(locs.rows)
                /\ \A k \in 1..Len(out.rows) :
                      /\ Project(out.rows[k], {"a", "location"})
                            = Project(locs.rows[k], {"a", "location"})
                      /\ out.rows[k][action] = out.rows[k]["a"] * 10 + out.rows[k]["location"]
          /\ (Failing = <<>> /\ single /\ Len(locs.rows) = 1) =>
                /\ apc = "returned"
                /\ out.rows[1][action] = locs.rows[1]["a"] * 10 + locs.rows[1]["location"]

\* C9 witness: three rows, the action failed on the first and the last, the
\* aggregate error was raised.
C9_Witness ==
    /\ apc = "raised" /\ continue_on_error
    /\ Len(locs.rows) = 3
    /\ Failing = <<1, 3>>
    /\ Len(raised.components) = 2

\* C10: a new Instance is in fail-fast mode; in that mode run_action raises at
\* the first row on which the action fails, the error annotated with the action
\* name, the target, the location and the coordinates of that row; the action
\* was invoked exactly once on every earlier row and on that row, and on no
\* later row.
C10_FailFast ==
    /\ apc = "new" => ~continue_on_error
    /\ (Called /\ ~continue_on_error /\ action # "location")
          => \A k \in 1..Len(invocations) :
                /\ invocations[k] = k
                /\ k < Len(invocations) => locs.rows[k]["a"] \notin fails
    /\ (Ended /\ ~continue_on_error /\ action # "location" /\ SharedRows = {}
           /\ Failing # <<>>) =>
          /\ apc = "raised" /\ raised.kind = "Exception"
          /\ raised.note = <<action, Target, locs.rows[Failing[1]]["location"],
                              ("a" :> locs.rows[Failing[1]]["a"])>>
          /\ invocations = [k \in 1..Failing[1] |-> k]

\* C10 witness: three rows, the action failed on the second, the error was
\* raised with the first two rows invoked and the third not.
C10_Witness ==
    /\ apc = "raised" /\ ~continue_on_error
    /\ Len(locs.rows) = 3
    /\ Failing # <<>> /\ Failing[1] = 2
    /\ invocations = <<1, 2>>

\* the value _extract_single gives for the column col of a one-row table
SingleValue(t, col) == Table({col}, <<Project(t.rows[1], {col})>>)

\* C13: a call of get_single_location ends; when exactly one row resolves it
\* has returned that row's location, and when no row or several rows resolve
\* it has raised the extraction error, which reports the resolved table.
C13_SingleLocation ==
    (op = "get_single_location" /\ apc \in {"returned", "raised"}) =>
        IF Len(resolves.rows) = 1
        THEN apc = "returned" /\ out = SingleValue(resolves, "location")
        ELSE /\ apc = "raised"
             /\ raised.kind = "Problem. Expected a single line"
             /\ raised.rows = resolves.rows

\* C15: in run_action with the action name "location" no action callback is
\* invoked on any row and no result column is added; what it returns is the
\* table of resolved locations as get_locations gave it, or in single-result
\* mode the location of its one row.
C15_LocationShortCircuit ==
    (op \in Entries /\ Called /\ action = "location") =>
        /\ invocations = <<>>
        /\ results = <<>>
        /\ locs = resolves
        /\ apc = "returned" =>
              IF single
              THEN Len(resolves.rows) = 1 /\ out = SingleValue(resolves, "location")
              ELSE out = resolves /\ out.cols = {"a", "location"}

\* C15 witness: run_action("location") returned the table of three resolved
\* rows, on two of which the action callback would have raised.
C15_Witness ==
    /\ op = "run_action" /\ action = "location" /\ ~single
    /\ apc = "returned"
    /\ Len(out.rows) = 3
    /\ Cardinality(fails) = 2

\* C20: the function wrapped by precompute is invoked only once the run_action
\* of the prerequisite, made in single-result mode, has returned, with exactly
\* one resolved row and no error; when the prerequisite raised (a failing
\* action, a duplicate location, no row or several rows) the wrapped function
\* is not invoked and the error is the outcome of the call.
C20_PrecomputeOrdering ==
    /\ finvoked =>
          /\ op = "precompute" /\ single
          /\ apc = "returned" /\ raised = NoError
          /\ Len(resolves.rows) = 1 /\ Len(locs.rows) = 1
          /\ out = SingleValue(locs, action)
          /\ action # "location" => invocations = <<1>>
    /\ (op = "precompute" /\ apc = "raised") =>
          /\ ~finvoked
          /\ raised.kind \in {"Exception", "ExceptionGroup", "Duplication problem",
                               "Problem. Expected a single line"}
    /\ (op = "precompute" /\ apc = "returned") => Len(resolves.rows) = 1

\* C20 witness: the prerequisite action ran on the one resolved row and
\* returned, and the wrapped function was then invoked.
C20_Witness ==
    /\ op = "precompute" /\ action = "compute"
    /\ invocations = <<1>>
    /\ apc = "returned"
    /\ finvoked

====
